---- MODULE Spec2Model ----
(***************************************************************************)
(* Model of AmberELEC/usr/bin/system_sync.py (class SystemSyncUI): the     *)
(* scan of the overlay tree (roms/System) against the target tree (root    *)
(* partition), the per-file comparison by MD5, the diff view, the          *)
(* selective copy and the pygame session that drives them.                 *)
(*                                                                         *)
(* A relative path is the position of the file in os.walk order            *)
(* (1..Len(overlay)); the overlay tree is never written by the program, so *)
(* that order is the same for every scan of one behaviour.  A file content *)
(* is a number: 0 is the empty file, c > 0 the file of the one line "c\n". *)
(***************************************************************************)
EXTENDS Integers, Sequences, FiniteSets, TLC

(* ------------------------------ bounds --------------------------------- *)
\* Files under the overlay root.
MaxFiles == 2
\* Copies of one apply that the environment makes fail (EACCES, ENOSPC, ...).
MaxFaults == 1
\* File contents 0..MaxContent of the trees that are only scanned.
MaxContent == 2
LongList == 14

(* ------------------------- program constants --------------------------- *)
max_visible_items == 12
diff_max_lines == 16

VARIABLES
    overlayExists,   \* self.system_path.exists()
    overlay,         \* overlay files in os.walk order: [content, readable]
    target,          \* what root_path / rel_path is, per overlay file
    files_to_sync,   \* self.files_to_sync
    selected_index,  \* self.selected_index
    scroll_offset,   \* self.scroll_offset
    state,           \* self.state
    diff_lines,      \* self.diff_lines
    diff_scroll,     \* self.diff_scroll
    running,         \* self.running
    success,         \* run(): success
    fail,            \* run(): fail
    pc,              \* position in run(): start, noroot (first loop), main
    scan_target,     \* the target tree as check_system_folder saw it
    inside,          \* inside[p]: the path target[p]/<name of p>, which is a
                     \* path only while target[p] is a directory
    attempts,        \* the calls of sync_file made by sync_selected_files
    diff_opened      \* the files the last get_file_diff opened

vars == <<overlayExists, overlay, target, files_to_sync, selected_index,
          scroll_offset, state, diff_lines, diff_scroll, running, success,
          fail, pc, scan_target, inside, attempts, diff_opened>>

(* ---------------------------- file system ------------------------------ *)
Absent == [kind |-> "absent", content |-> 0, readable |-> FALSE]
BrokenLink == [kind |-> "link", content |-> 0, readable |-> FALSE]
Directory == [kind |-> "dir", content |-> 0, readable |-> FALSE]
RegularFile(c, r) == [kind |-> "file", content |-> c, readable |-> r]
\* A file that open() cannot read (permissions, I/O error).  No step of the
\* program observes the content of a file it cannot read: it is kept as 0.
Unreadable == RegularFile(0, FALSE)

\* An overlay file as os.walk lists it: a file, readable or not.
OverlayNode(contents) ==
    [content : contents, readable : {TRUE}]
        \cup {[content |-> 0, readable |-> FALSE]}

\* What root_path / rel_path can be.
TargetNode(contents) ==
    {Absent, BrokenLink, Directory, Unreadable}
        \cup {RegularFile(c, TRUE) : c \in contents}

\* Path.exists() follows symlinks: a dangling symlink does not exist.
exists(dest) == dest.kind \in {"file", "dir"}

\* What open(path, "rb") / open(path, "r") does: TRUE when it raises.
open_raises(node) == ~(node.kind = "file" /\ node.readable)

\* An overlay file seen through the same interface as a target path.
SrcNode(o) == RegularFile(o.content, o.readable)

(* ------------------------------ file_hash ------------------------------ *)
None == [none |-> TRUE, hex |-> 0]

\* hashlib.md5 over the chunks of the file: one digest per content
\* (collisions are outside the bounded content set).
md5(c) == [none |-> FALSE, hex |-> 2 * c + 1]

file_hash(node) == IF open_raises(node) THEN None ELSE md5(node.content)

(* ---------------------------- compare_files ---------------------------- *)
\* compare_files with the two results of the hash test exchanged.
compare_files_swapped(src, dest) ==
    IF ~exists(dest) THEN "new"
    ELSE IF file_hash(src) = file_hash(dest) THEN "modified" ELSE "identical"

\* file_hash never raises, so the except branch ("error: ...") of
\* compare_files is never taken.
compare_files(src, dest) ==
    IF ~exists(dest) THEN "new"
    ELSE LET src_hash == file_hash(src)
             dest_hash == file_hash(dest)
         IN  IF src_hash = dest_hash THEN "identical" ELSE "modified"

(* ------------------------- check_system_folder ------------------------- *)
\* The candidate record with a New file left out of the default selection.
FileInfo_new_unselected(i, status) ==
    [rel_path |-> i, status |-> status, selected |-> status # "new"]

FileInfo(i, status) == [rel_path |-> i, status |-> status, selected |-> TRUE]

RECURSIVE walk(_, _, _)
walk(ov, tg, i) ==
    IF i > Len(ov) THEN <<>>
    ELSE LET status == compare_files(SrcNode(ov[i]), tg[i])
         IN  (IF status # "identical" THEN <<FileInfo(i, status)>> ELSE <<>>)
                 \o walk(ov, tg, i + 1)

\* check_system_folder without "self.files_to_sync = []": every scan adds
\* its candidates to those of the scans before.
check_system_folder_appending(rootExists, ov, tg, old) ==
    IF ~rootExists THEN [ok |-> FALSE, files |-> old]
    ELSE [ok |-> TRUE, files |-> old \o walk(ov, tg, 1)]

\* check_system_folder without its test of self.system_path.exists():
\* os.walk of a missing directory yields nothing.
check_system_folder_unguarded(rootExists, ov, tg, old) ==
    [ok |-> TRUE, files |-> walk(ov, tg, 1)]

\* [ok |-> the return value, files |-> self.files_to_sync afterwards]
check_system_folder(rootExists, ov, tg, old) ==
    IF ~rootExists THEN [ok |-> FALSE, files |-> old]
    ELSE [ok |-> TRUE, files |-> walk(ov, tg, 1)]

(* ---------------------------- get_file_diff ---------------------------- *)
Line(tag, arg) == [tag |-> tag, arg |-> arg]

\* f.readlines(): the empty file has no line, the file c > 0 has one line.
readlines(node) == IF node.content = 0 THEN <<>> ELSE <<node.content>>

RECURSIVE prefixed(_, _, _)
prefixed(tag, lines, i) ==
    IF i > Len(lines) THEN <<>>
    ELSE <<Line(tag, lines[i])>> \o prefixed(tag, lines, i + 1)

\* difflib.unified_diff(a, b, lineterm='') for files of at most one line:
\* nothing when equal, else the two file headers, one hunk header, the
\* removed lines of a and the added lines of b.
unified_diff(a, b) ==
    IF a = b THEN <<>>
    ELSE <<Line("---", 0), Line("+++", 0), Line("@@", 0)>>
            \o prefixed("-", a, 1) \o prefixed("+", b, 1)

\* The errno of the OSError open() raises: EISDIR or EACCES.
errno(node) == IF node.kind = "dir" THEN 21 ELSE 13

\* get_file_diff without its test of dest.exists().
get_file_diff_unguarded(rel_path, src, dest) ==
    IF open_raises(src)
    THEN [lines |-> <<Line("Cannot generate diff: ", errno(src))>>,
          opened |-> {"src"}]
    ELSE IF open_raises(dest)
    THEN [lines |-> <<Line("Cannot generate diff: ", errno(dest))>>,
          opened |-> {"src", "dest"}]
    ELSE [lines |-> unified_diff(readlines(dest), readlines(src)),
          opened |-> {"src", "dest"}]

\* [lines |-> the returned list, opened |-> the files open() was called on]
get_file_diff(rel_path, src, dest) ==
    IF ~exists(dest)
    THEN [lines |-> <<Line("New file: ", rel_path)>>, opened |-> {}]
    ELSE IF open_raises(src)
    THEN [lines |-> <<Line("Cannot generate diff: ", errno(src))>>,
          opened |-> {"src"}]
    ELSE IF open_raises(dest)
    THEN [lines |-> <<Line("Cannot generate diff: ", errno(dest))>>,
          opened |-> {"src", "dest"}]
    ELSE [lines |-> unified_diff(readlines(dest), readlines(src)),
          opened |-> {"src", "dest"}]

(* ------------------------------ sync_file ------------------------------ *)
\* What the environment does to one copy: nothing ("ok"), or it makes
\* dest.parent.mkdir raise ("mkdir"), the open of the destination raise
\* ("open"), a write raise after the destination was truncated ("write"),
\* or shutil.copystat raise after the content was copied ("stat").
CopyFault == {"mkdir", "open", "write", "stat"}
CopyOutcome == {"ok"} \cup CopyFault

\* The mode bits of a file the copy created are those of a new file.
ReadableAfter(dest) == IF dest.kind = "file" THEN dest.readable ELSE TRUE

\* [ok |-> the return value, dest |-> what the target path is afterwards]
sync_file(src, dest, outcome) ==
    IF outcome = "mkdir" THEN [ok |-> FALSE, dest |-> dest]
    ELSE IF dest.kind = "dir"
    \* shutil.copy2 copies INTO an existing directory: dest itself stays.
    THEN [ok |-> outcome = "ok" /\ ~open_raises(src), dest |-> dest]
    ELSE IF open_raises(src) THEN [ok |-> FALSE, dest |-> dest]
    ELSE IF outcome = "open" THEN [ok |-> FALSE, dest |-> dest]
    ELSE IF outcome = "write" /\ src.content # 0
    THEN [ok |-> FALSE, dest |-> RegularFile(0, ReadableAfter(dest))]
    ELSE IF outcome = "stat"
    THEN [ok |-> FALSE,
          dest |-> IF ReadableAfter(dest) THEN RegularFile(src.content, TRUE)
                   ELSE Unreadable]
    ELSE [ok |-> TRUE, dest |-> RegularFile(src.content, TRUE)]

\* shutil.copy2(src, dest) with dest a directory writes dest/<name of src>:
\* the copy of sync_file, made to that path (old: what is there).
copy2_into(src, dest, outcome, old) ==
    IF dest.kind = "dir" THEN sync_file(src, old, outcome).dest ELSE old

(* -------------------------- sync_selected_files ------------------------ *)
SelectedIndices(files) == {k \in 1..Len(files) : files[k].selected}

\* sync_loop with a sync_file that lets the exception through: the loop
\* ends at the first copy that fails.
RECURSIVE sync_loop_aborting(_, _, _, _, _)
sync_loop_aborting(files, ov, outcomes, k, acc) ==
    IF k > Len(files) THEN acc
    ELSE IF ~files[k].selected
    THEN sync_loop_aborting(files, ov, outcomes, k + 1, acc)
    ELSE LET p == files[k].rel_path
             r == sync_file(SrcNode(ov[p]), acc.target[p], outcomes[k])
             next == [success |-> IF r.ok THEN acc.success + 1 ELSE acc.success,
                      fail |-> IF r.ok THEN acc.fail ELSE acc.fail + 1,
                      target |-> [acc.target EXCEPT ![p] = r.dest],
                      inside |-> [acc.inside EXCEPT ![p] =
                                    copy2_into(SrcNode(ov[p]), acc.target[p],
                                               outcomes[k], @)],
                      attempts |-> Append(acc.attempts,
                                          [index |-> k, ok |-> r.ok])]
         IN  IF r.ok THEN sync_loop_aborting(files, ov, outcomes, k + 1, next)
             ELSE next

\* The for loop from position k on;
\* acc = [success, fail, target, inside, attempts].
RECURSIVE sync_loop(_, _, _, _, _)
sync_loop(files, ov, outcomes, k, acc) ==
    IF k > Len(files) THEN acc
    ELSE IF ~files[k].selected THEN sync_loop(files, ov, outcomes, k + 1, acc)
    ELSE LET p == files[k].rel_path
             r == sync_file(SrcNode(ov[p]), acc.target[p], outcomes[k])
         IN  sync_loop(files, ov, outcomes, k + 1,
                [success |-> IF r.ok THEN acc.success + 1 ELSE acc.success,
                 fail |-> IF r.ok THEN acc.fail ELSE acc.fail + 1,
                 target |-> [acc.target EXCEPT ![p] = r.dest],
                 inside |-> [acc.inside EXCEPT ![p] =
                               copy2_into(SrcNode(ov[p]), acc.target[p],
                                          outcomes[k], @)],
                 attempts |-> Append(acc.attempts, [index |-> k, ok |-> r.ok])])

sync_selected_files(files, ov, tg, ins, outcomes) ==
    sync_loop(files, ov, outcomes, 1,
              [success |-> 0, fail |-> 0, target |-> tg, inside |-> ins,
               attempts |-> <<>>])

(* --------------------------------- Init -------------------------------- *)
Trees(nodes) == UNION {[1..n -> nodes] : n \in 0..MaxFiles}

\* SystemSyncUI.__init__, and the file system the session starts on.
Constructed ==
    /\ files_to_sync = <<>>
    /\ selected_index = 0
    /\ scroll_offset = 0
    /\ state = "scan"
    /\ diff_lines = <<>>
    /\ diff_scroll = 0
    /\ running = TRUE
    /\ success = 0
    /\ fail = 0
    /\ pc = "start"
    /\ scan_target = target
    \* a directory at a target path holds no file of the overlay file's name
    /\ inside = [p \in 1..Len(overlay) |-> Absent]
    /\ attempts = <<>>
    /\ diff_opened = {}

\* A session: the overlay root is missing, or it is readable (every file
\* under it can be read) and holds at most MaxFiles files, empty or of one
\* line; a target path is missing, a directory or a file, readable or not.
\* (A dangling symlink is to every step of a session what a missing file
\* is: exists() is False and the copy creates the file.  It is scanned
\* under SpecScan.)
Init ==
    /\ overlayExists \in BOOLEAN
    /\ overlay \in Trees([content : {0, 1}, readable : {TRUE}])
    /\ (~overlayExists => overlay = <<>>)
    /\ target \in [1..Len(overlay) -> TargetNode({0, 1}) \ {BrokenLink}]
    /\ Constructed

\* Trees that are scanned: any overlay file may be unreadable as well.
InitScan ==
    /\ overlayExists \in BOOLEAN
    /\ overlay \in Trees(OverlayNode(0..MaxContent))
    /\ (~overlayExists => overlay = <<>>)
    /\ target \in [1..Len(overlay) -> TargetNode(0..MaxContent)]
    /\ Constructed

fs == <<overlayExists, overlay, target, scan_target, inside>>
ui == <<selected_index, scroll_offset, diff_lines, diff_scroll, diff_opened>>
tally == <<success, fail, attempts>>

(* ------------------------- run(): initial scan ------------------------- *)
Start ==
    /\ pc = "start"
    /\ LET r == check_system_folder(overlayExists, overlay, target, files_to_sync)
       IN  /\ files_to_sync' = r.files
           /\ pc' = IF r.ok THEN "main" ELSE "noroot"
           /\ state' = IF ~r.ok THEN state
                       ELSE IF r.files = <<>> THEN "done" ELSE "list"
    /\ success' = 0
    /\ fail' = 0
    /\ scan_target' = target
    /\ UNCHANGED <<overlayExists, overlay, target, inside, ui, running, attempts>>

(* ----------------------------- handle_input ---------------------------- *)
\* Both loops of run() call handle_input; it handles the queued events one
\* after the other, whatever self.running has become meanwhile.  The loop
\* test "while self.running" changes no variable: run() is over when a
\* batch of events ends with running = FALSE (and state # "syncing").
InLoop == pc \in {"noroot", "main"}

Quit ==
    /\ InLoop
    /\ running
    /\ running' = FALSE
    /\ UNCHANGED <<fs, files_to_sync, ui, state, tally, pc>>

\* K_ESCAPE as "back" on every screen: the done screen returns to the list.
KeyEscape_back_from_done ==
    /\ InLoop
    /\ state \in {"scan", "list", "diff", "confirm", "done"}
    /\ IF state \in {"diff", "confirm", "done"}
       THEN state' = "list" /\ UNCHANGED running
       ELSE running' = FALSE /\ UNCHANGED state
    /\ UNCHANGED <<fs, files_to_sync, ui, tally, pc>>

KeyEscape ==
    /\ InLoop
    /\ state \in {"scan", "list", "diff", "confirm", "done"}
    /\ IF state \in {"diff", "confirm"}
       THEN state' = "list" /\ UNCHANGED running
       ELSE running' = FALSE /\ UNCHANGED state
    /\ UNCHANGED <<fs, files_to_sync, ui, tally, pc>>

KeyUp ==
    /\ InLoop
    /\ \/ /\ state = "list"
          /\ selected_index > 0
          /\ selected_index' = selected_index - 1
          /\ scroll_offset' = IF selected_index' < scroll_offset
                              THEN selected_index' ELSE scroll_offset
          /\ UNCHANGED <<diff_scroll, running>>
       \/ /\ state = "diff"
          /\ diff_scroll > 0
          /\ diff_scroll' = diff_scroll - 1
          /\ UNCHANGED <<selected_index, scroll_offset, running>>
       \/ /\ state = "done"
          /\ running' = FALSE
          /\ UNCHANGED <<selected_index, scroll_offset, diff_scroll>>
    /\ UNCHANGED <<fs, files_to_sync, diff_lines, diff_opened, state, tally, pc>>

\* The files of the model have at most one line, so a diff has fewer than
\* diff_max_lines lines and the diff view is never scrolled.
\* K_DOWN without the adjustment of scroll_offset.
KeyDown_no_scroll ==
    /\ InLoop
    /\ \/ /\ state = "list"
          /\ selected_index < Len(files_to_sync) - 1
          /\ selected_index' = selected_index + 1
          /\ UNCHANGED <<scroll_offset, diff_scroll, running>>
       \/ /\ state = "diff"
          /\ LET len == Len(diff_lines) - diff_max_lines
                 max_scroll == IF len > 0 THEN len ELSE 0
             IN  diff_scroll < max_scroll
          /\ diff_scroll' = diff_scroll + 1
          /\ UNCHANGED <<selected_index, scroll_offset, running>>
       \/ /\ state = "done"
          /\ running' = FALSE
          /\ UNCHANGED <<selected_index, scroll_offset, diff_scroll>>
    /\ UNCHANGED <<fs, files_to_sync, diff_lines, diff_opened, state, tally, pc>>

KeyDown ==
    /\ InLoop
    /\ \/ /\ state = "list"
          /\ selected_index < Len(files_to_sync) - 1
          /\ selected_index' = selected_index + 1
          /\ scroll_offset' =
                IF selected_index' >= scroll_offset + max_visible_items
                THEN selected_index' - max_visible_items + 1
                ELSE scroll_offset
          /\ UNCHANGED <<diff_scroll, running>>
       \/ /\ state = "diff"
          /\ LET len == Len(diff_lines) - diff_max_lines
                 max_scroll == IF len > 0 THEN len ELSE 0
             IN  diff_scroll < max_scroll
          /\ diff_scroll' = diff_scroll + 1
          /\ UNCHANGED <<selected_index, scroll_offset, running>>
       \/ /\ state = "done"
          /\ running' = FALSE
          /\ UNCHANGED <<selected_index, scroll_offset, diff_scroll>>
    /\ UNCHANGED <<fs, files_to_sync, diff_lines, diff_opened, state, tally, pc>>

\* self.files_to_sync[self.selected_index]: Python indexes from 0.
Current == files_to_sync[selected_index + 1]

\* K_SPACE as "invert the selection": every flag of the list is flipped.
KeySpace_invert_all ==
    /\ InLoop
    /\ \/ /\ state = "list"
          /\ files_to_sync' =
                [k \in 1..Len(files_to_sync) |->
                    [files_to_sync[k] EXCEPT !.selected = ~@]]
          /\ UNCHANGED running
       \/ /\ state = "done"
          /\ running' = FALSE
          /\ UNCHANGED files_to_sync
    /\ UNCHANGED <<fs, ui, state, tally, pc>>

KeySpace ==
    /\ InLoop
    /\ \/ /\ state = "list"
          /\ files_to_sync' =
                [files_to_sync EXCEPT ![selected_index + 1].selected =
                                            ~Current.selected]
          /\ UNCHANGED running
       \/ /\ state = "done"
          /\ running' = FALSE
          /\ UNCHANGED files_to_sync
    /\ UNCHANGED <<fs, ui, state, tally, pc>>

KeyD ==
    /\ InLoop
    /\ \/ /\ state = "list"
          /\ LET p == Current.rel_path
                 d == get_file_diff(p, SrcNode(overlay[p]), target[p])
             IN  /\ diff_lines' = d.lines
                 /\ diff_opened' = d.opened
          /\ diff_scroll' = 0
          /\ state' = "diff"
          /\ UNCHANGED running
       \/ /\ state = "done"
          /\ running' = FALSE
          /\ UNCHANGED <<diff_lines, diff_opened, diff_scroll, state>>
    /\ UNCHANGED <<fs, files_to_sync, selected_index, scroll_offset, tally, pc>>

\* K_RETURN without the test any(f['selected'] ...) of the list screen.
KeyReturn_any_selection ==
    /\ InLoop
    /\ \/ /\ state = "list"
          /\ state' = "confirm"
          /\ UNCHANGED running
       \/ /\ state = "confirm"
          /\ state' = "syncing"
          /\ UNCHANGED running
       \/ /\ state = "done"
          /\ running' = FALSE
          /\ UNCHANGED state
    /\ UNCHANGED <<fs, files_to_sync, ui, tally, pc>>

KeyReturn ==
    /\ InLoop
    /\ \/ /\ state = "list"
          /\ \E k \in 1..Len(files_to_sync) : files_to_sync[k].selected
          /\ state' = "confirm"
          /\ UNCHANGED running
       \/ /\ state = "confirm"
          /\ state' = "syncing"
          /\ UNCHANGED running
       \/ /\ state = "done"
          /\ running' = FALSE
          /\ UNCHANGED state
    /\ UNCHANGED <<fs, files_to_sync, ui, tally, pc>>

(* ----------------------- run(): the syncing branch --------------------- *)
\* handle_input has returned with state "syncing": the same iteration of the
\* main loop copies the selected files, and the loop test comes after it.
\* The syncing branch followed by a scan of the trees as they are now:
\* the list is replaced by what is left to copy.
Sync_rescanning ==
    /\ pc = "main"
    /\ state = "syncing"
    /\ \E faulty \in SUBSET SelectedIndices(files_to_sync) :
          /\ Cardinality(faulty) <= MaxFaults
          /\ \E faults \in [faulty -> CopyFault] :
                LET outcomes == [k \in SelectedIndices(files_to_sync) |->
                                    IF k \in faulty THEN faults[k] ELSE "ok"]
                    r == sync_selected_files(files_to_sync, overlay, target, inside,
                                             outcomes)
                IN  /\ success' = r.success
                    /\ fail' = r.fail
                    /\ target' = r.target
                    /\ inside' = r.inside
                    /\ attempts' = r.attempts
                    /\ files_to_sync' =
                          check_system_folder(overlayExists, overlay, r.target,
                                              <<>>).files
    /\ state' = "done"
    /\ UNCHANGED <<overlayExists, overlay, scan_target, ui, running, pc>>

Sync ==
    /\ pc = "main"
    /\ state = "syncing"
    /\ \E faulty \in SUBSET SelectedIndices(files_to_sync) :
          /\ Cardinality(faulty) <= MaxFaults
          /\ \E faults \in [faulty -> CopyFault] :
                LET outcomes == [k \in SelectedIndices(files_to_sync) |->
                                    IF k \in faulty THEN faults[k] ELSE "ok"]
                    r == sync_selected_files(files_to_sync, overlay, target, inside,
                                             outcomes)
                IN  /\ success' = r.success
                    /\ fail' = r.fail
                    /\ target' = r.target
                    /\ inside' = r.inside
                    /\ attempts' = r.attempts
    /\ state' = "done"
    /\ UNCHANGED <<overlayExists, overlay, scan_target, files_to_sync, ui,
                   running, pc>>

Next ==
    \/ Start
    \/ Quit
    \/ KeyEscape
    \/ KeyUp
    \/ KeyDown
    \/ KeySpace
    \/ KeyD
    \/ KeyReturn
    \/ Sync

Spec == Init /\ [][Next]_vars

\* The initial scan of run() alone, over the larger set of trees.
SpecScan == InitScan /\ [][Start]_vars

(* ------------------------ the screens on a long list ------------------ *)
\* A list about as long as the window of the list screen and longer: the
\* overlay holds up to LongList files of one line and no target exists, so
\* every file is a New candidate.
InitList ==
    /\ overlayExists = TRUE
    /\ \E n \in (max_visible_items - 1)..LongList :
            /\ overlay = [p \in 1..n |-> [content |-> 1, readable |-> TRUE]]
            /\ target = [p \in 1..n |-> Absent]
    /\ Constructed

\* K_SPACE by an operator who has at most one candidate deselected at a
\* time (what the keys do to the cursor does not read the flags).
KeySpaceOne ==
    /\ \A k \in 1..Len(files_to_sync) :
            k # selected_index + 1 => files_to_sync[k].selected
    /\ KeySpace

\* The session up to the apply.
NextList ==
    \/ Start
    \/ Quit
    \/ KeyEscape
    \/ KeyUp
    \/ KeyDown
    \/ KeySpaceOne
    \/ KeyD
    \/ KeyReturn

SpecList == InitList /\ [][NextList]_vars

(* ======================================================================= *)
(*                               Properties                                *)
(* ======================================================================= *)
Scanned == pc # "start"
Applied == state = "done" /\ attempts # <<>>
Src(p) == SrcNode(overlay[p])
Candidates(files, p) == {k \in 1..Len(files) : files[k].rel_path = p}
Failed == {j \in 1..Len(attempts) : ~attempts[j].ok}
Succeeded == {j \in 1..Len(attempts) : attempts[j].ok}
Rescan == check_system_folder(overlayExists, overlay, target, <<>>).files
RelPaths(files) == {files[k].rel_path : k \in 1..Len(files)}
\* A hash of the pair at path p failed when the tree was scanned.
HashFailed(p) ==
    /\ exists(scan_target[p])
    /\ (file_hash(Src(p)) = None \/ file_hash(scan_target[p]) = None)

(* C1: sync_selected_files attempts every selected candidate exactly once,  *)
(* in list order, whatever copy fails, and its tally counts them:           *)
(* success + fail = number selected, fail = number of failed copies.        *)
C1_PartialFailureTolerance ==
    Applied =>
        LET sel == SelectedIndices(files_to_sync)
        IN  /\ Len(attempts) = Cardinality(sel)
            /\ \A j \in 1..Len(attempts) : attempts[j].index \in sel
            /\ \A i, j \in 1..Len(attempts) :
                    i < j => attempts[i].index < attempts[j].index
            /\ success + fail = Cardinality(sel)
            /\ fail = Cardinality(Failed)
            /\ success = Cardinality(Succeeded)

\* Two or more selected, the first copy fails, the others succeed.
C1_Witness ==
    /\ Applied
    /\ Len(attempts) >= 2
    /\ ~attempts[1].ok
    /\ fail = 1
    /\ success = Len(attempts) - 1

(* C2: when the target exists and a hash of the pair fails, the file is a   *)
(* candidate of the scan with status Error.                                 *)
C2_HashFailureIsError ==
    Scanned =>
        \A p \in 1..Len(overlay) :
            HashFailed(p) =>
                \E k \in Candidates(files_to_sync, p) :
                    files_to_sync[k].status = "error"

(* C3: a Modified candidate whose copy succeeded compares Identical         *)
(* afterwards, and the overlay file is what it was.                         *)
C3_RoundTrip ==
    Applied =>
        \A j \in Succeeded :
            LET f == files_to_sync[attempts[j].index]
            IN  f.status = "modified" =>
                    compare_files(Src(f.rel_path), target[f.rel_path])
                        = "identical"

(* C4: scan, all candidates selected, apply with no failure: the next scan  *)
(* of the same roots is empty.                                              *)
C4_RescanEmpty ==
    (/\ Applied
     /\ \A k \in 1..Len(files_to_sync) : files_to_sync[k].selected
     /\ fail = 0)
        => Rescan = <<>>

(* C5: the scan result is exactly the differing files, in walk order: one   *)
(* New candidate per overlay file with no target counterpart, one Modified  *)
(* candidate per overlay file whose target has another content, nothing for *)
(* a byte-identical pair, no relative path twice.                           *)
\* What the contents of the pair at p say, without any hash.
Expected(p) ==
    IF ~exists(scan_target[p]) THEN "new"
    ELSE IF /\ scan_target[p].kind = "file"
            /\ scan_target[p].content = overlay[p].content
         THEN "identical"
         ELSE "modified"

Differing == {p \in 1..Len(overlay) : Expected(p) # "identical"}

Comparable(p) ==
    \/ ~exists(scan_target[p])
    \/ (~open_raises(Src(p)) /\ ~open_raises(scan_target[p]))

C6_BrokenLinkIsError ==
    Scanned =>
        \A p \in 1..Len(overlay) :
            scan_target[p].kind = "link" =>
                \E k \in Candidates(files_to_sync, p) :
                    files_to_sync[k].status = "error"

(* C7: without an overlay root the scan fails and the session stays in the  *)
(* scan state: no list, diff, confirm or apply, no target written; with an  *)
(* overlay root and nothing to sync the scan succeeds with an empty result  *)
(* and the session is done with the tally {0, 0} and nothing copied.        *)
C7_MissingVersusEmptyRoot ==
    /\ (Scanned /\ ~overlayExists) =>
            /\ pc = "noroot"
            /\ state = "scan"
            /\ files_to_sync = <<>>
            /\ diff_lines = <<>>
            /\ attempts = <<>>
            /\ target = scan_target
    /\ (Scanned /\ overlayExists) => pc = "main"
    /\ (pc = "main" /\ files_to_sync = <<>>) =>
            /\ state = "done"
            /\ success = 0 /\ fail = 0
            /\ attempts = <<>>
            /\ target = scan_target

\* The session on a missing root, left by ESC.
C7_Witness == pc = "noroot" /\ ~overlayExists /\ ~running

(* C8: after an apply, a fresh scan returns exactly the candidates that     *)
(* were not selected and the selected ones whose copy failed.               *)
C8_RescanIsUnselectedAndFailed ==
    Applied =>
        RelPaths(Rescan) =
            {files_to_sync[k].rel_path :
                k \in (1..Len(files_to_sync)) \ SelectedIndices(files_to_sync)}
            \cup {files_to_sync[attempts[j].index].rel_path : j \in Failed}

(* C9: the diff of a candidate whose comparison failed is the one line of   *)
(* the error stored by the scan, and no file is opened for it.              *)
C9_DiffOfErrorCandidate ==
    (state = "diff" /\ HashFailed(Current.rel_path)) =>
        /\ Current.status = "error"
        /\ diff_lines = <<Line("error: ", errno(scan_target[Current.rel_path]))>>
        /\ diff_opened = {}

(* C10: whenever the diff of a New candidate is on screen, it is the one    *)
(* "New file" line for that file, never a unified diff.                     *)
C10_DiffOfNewCandidate ==
    (state = "diff" /\ Current.status = "new") =>
        diff_lines = <<Line("New file: ", Current.rel_path)>>

\* The diff of the second candidate, New and deselected before.
C10_Witness ==
    /\ state = "diff"
    /\ selected_index = 1
    /\ Current.status = "new"
    /\ ~Current.selected

(* C11: after the scan, a step changes the list of candidates only in the   *)
(* list state, and then it flips the selected flag of the candidate at the  *)
(* cursor and nothing else of the list; flipping that flag again gives the  *)
(* list back.  Navigation, diff, confirm, cancel and apply change no flag.  *)
Flags(files) == [k \in 1..Len(files) |-> files[k].selected]
Toggled(files, i) == [files EXCEPT ![i].selected = ~files[i].selected]

C11_SelectionOnlyByToggle ==
    [][(Scanned /\ Flags(files_to_sync') # Flags(files_to_sync)) =>
            /\ state = "list" /\ state' = "list"
            /\ selected_index + 1 \in 1..Len(files_to_sync)
            /\ files_to_sync' = Toggled(files_to_sync, selected_index + 1)
            /\ Toggled(files_to_sync', selected_index + 1) = files_to_sync
            /\ UNCHANGED <<fs, ui, tally, running, pc>>]_vars

\* The list after DOWN and SPACE: the second candidate is deselected, the
\* first is not.
C11_Witness ==
    /\ state = "list"
    /\ Len(files_to_sync) = 2
    /\ selected_index = 1
    /\ files_to_sync[1].selected
    /\ ~files_to_sync[2].selected

(* C12: at every moment after the scan the list has the length, the order,  *)
(* the relative paths and the statuses that the scan computed from the      *)
(* trees as they were then: no key, and no apply, changes any of them.      *)
Identity(files) ==
    [k \in 1..Len(files) |->
        [rel_path |-> files[k].rel_path, status |-> files[k].status]]
ScanResult == check_system_folder(overlayExists, overlay, scan_target, <<>>).files

C12_StatusImmutable ==
    Scanned => Identity(files_to_sync) = Identity(ScanResult)

\* After an apply that copied a New candidate: its target exists now and
\* its status is still "new".
C12_Witness ==
    /\ Applied
    /\ \E j \in Succeeded :
            LET f == files_to_sync[attempts[j].index]
            IN  f.status = "new" /\ exists(target[f.rel_path])
    /\ \E k \in 1..Len(files_to_sync) : ~files_to_sync[k].selected

(* C13: the first step of a session is the scan and no later step scans;    *)
(* the apply is the step from syncing to done, and done is never left, so   *)
(* there is at most one apply; once syncing is entered no step changes the  *)
(* diff, the cursor or the selection; in done a step only ends the session. *)
ApplyStarted == state = "syncing" \/ Applied
ApplyStep == state = "syncing" /\ state' = "done"

C13_SessionLifecycle ==
    [][/\ (pc = "start") =>
            (pc' # "start" /\ state = "scan" /\ attempts' = <<>>)
       /\ (pc # "start") => (pc' = pc /\ scan_target' = scan_target)
       /\ (attempts' # attempts \/ target' # target) =>
            (ApplyStep /\ attempts = <<>> /\ target = scan_target)
       /\ (state # "syncing" /\ state' = "syncing") => state = "confirm"
       /\ ApplyStarted =>
            (state' \in {"syncing", "done"} /\ UNCHANGED <<files_to_sync, ui>>)
       /\ (state = "done") =>
            (/\ state' = "done"
             /\ running' = FALSE
             /\ UNCHANGED <<fs, files_to_sync, ui, tally, pc>>)]_vars

\* A session that showed a diff, applied once and was ended from the done
\* screen.
C13_Witness ==
    /\ Applied
    /\ ~running
    /\ diff_lines # <<>>
    /\ target # scan_target

(* C14: the scan leaves the overlay tree and the target tree as they were,  *)
(* and a second scan right after it returns the same value and a list of    *)
(* the same length with the same relative path and status at each position. *)
C14_ScanIdempotent ==
    [][(pc = "start") =>
            /\ UNCHANGED <<overlayExists, overlay, target>>
            /\ LET again == check_system_folder(overlayExists', overlay',
                                                target', files_to_sync')
               IN  /\ again.ok = (pc' = "main")
                   /\ Len(again.files) = Len(files_to_sync')
                   /\ Identity(again.files) = Identity(files_to_sync')]_vars

\* A scan with a New and a Modified candidate, one of them on a file that
\* cannot be read.
C14_Witness ==
    /\ Scanned
    /\ Len(files_to_sync) = 2
    /\ files_to_sync[1].status = "new"
    /\ files_to_sync[2].status = "modified"
    /\ open_raises(target[files_to_sync[2].rel_path])
    /\ target = scan_target

(* C15: right after the scan every candidate of the list is selected,       *)
(* whatever the trees are and whatever its status is.                       *)
C15_DefaultSelection ==
    Scanned =>
        \A k \in 1..Len(files_to_sync) : files_to_sync[k].selected = TRUE

\* A scan with a New candidate (dangling link at the target path) and a
\* candidate of a pair whose hash failed.
C15_Witness ==
    /\ Scanned
    /\ \E k \in 1..Len(files_to_sync) :
            /\ files_to_sync[k].status = "new"
            /\ target[files_to_sync[k].rel_path] = BrokenLink
    /\ \E k \in 1..Len(files_to_sync) : HashFailed(files_to_sync[k].rel_path)

(* C16: the apply leaves the overlay tree as it is, changes the target path *)
(* of no candidate that is not selected, and writes to no path but the      *)
(* target paths of the selected candidates.                                 *)
C16_ApplyTouchesOnlySelected ==
    [][ApplyStep =>
            /\ UNCHANGED <<overlayExists, overlay>>
            /\ \A p \in 1..Len(overlay) :
                    target'[p] # target[p] =>
                        \E k \in SelectedIndices(files_to_sync) :
                            files_to_sync[k].rel_path = p
            /\ inside' = inside]_vars

(* C17: syncing is entered from confirm only, and confirm from the list     *)
(* only and with a candidate selected; both steps change nothing but the    *)
(* state.  A step in confirm leaves the trees and the selection as they     *)
(* are and leads to the list or to syncing; targets are written in syncing  *)
(* only; an apply counts at least one copy.                                 *)
Entered(s) == state # s /\ state' = s

C17_ApplyGated ==
    [][/\ Entered("syncing") =>
            (state = "confirm" /\ UNCHANGED <<fs, files_to_sync, ui, tally>>)
       /\ Entered("confirm") =>
            (/\ state = "list"
             /\ SelectedIndices(files_to_sync) # {}
             /\ UNCHANGED <<fs, files_to_sync, ui, tally>>)
       /\ (state = "confirm") =>
            (/\ state' \in {"confirm", "list", "syncing"}
             /\ UNCHANGED <<fs, files_to_sync, ui, tally>>)
       /\ (target' # target \/ inside' # inside) => state = "syncing"
       /\ ApplyStep =>
            (/\ SelectedIndices(files_to_sync) # {}
             /\ success' + fail' >= 1)]_vars

\* The confirm screen for one candidate of two, nothing written so far.
C17_Witness ==
    /\ state = "confirm"
    /\ Cardinality(SelectedIndices(files_to_sync)) = 1
    /\ Len(files_to_sync) = 2
    /\ target = scan_target

(* C18: on the list, diff and confirm screens the cursor is an index of the *)
(* list and lies in the window of the list screen:                          *)
(* 0 <= selected_index < len(files_to_sync), 0 <= scroll_offset and         *)
(* scroll_offset <= selected_index < scroll_offset + max_visible_items.     *)
C18_CursorInRange ==
    (state \in {"list", "diff", "confirm"}) =>
        /\ files_to_sync # <<>>
        /\ 0 <= selected_index
        /\ selected_index < Len(files_to_sync)
        /\ 0 <= scroll_offset
        /\ scroll_offset <= selected_index
        /\ selected_index < scroll_offset + max_visible_items

\* The diff of the second candidate of a long list, shown after the cursor
\* went down past the window and came back up to its first line.
C18_Witness ==
    /\ state = "diff"
    /\ Len(files_to_sync) > max_visible_items
    /\ scroll_offset = 1
    /\ selected_index = 1
    /\ ~Current.selected

====
